---- MODULE Spec2Model ----
(***************************************************************************)
(* longest-word (src/main.c): the words of a file are inserted one by one  *)
(* into a trie; a word whose insertion walks through the end of a known    *)
(* word is put on a pending list together with the suffixes still missing; *)
(* once the file is read, every pending word whose missing suffix can be   *)
(* matched by words of the trie is a concatenated word: it is counted and  *)
(* ranked (longest, 2nd longest).                                          *)
(*                                                                         *)
(* Strings are sequences of character codes. A line of the file is a word  *)
(* followed by "\r\n". A trie node is named by the path that leads to it   *)
(* from the root (the sequence of child indexes), a linked list is the     *)
(* sequence of its elements, head first. The files checked hold words of   *)
(* the letters a and b, every line ends with "\r\n", and a line may be     *)
(* empty or repeated.                                                      *)
(***************************************************************************)
EXTENDS Integers, Sequences, FiniteSets, TLC

\* ---------------------------------------------------------------- bounds
\* number of lines of the input file
MaxLines == 4
\* number of letters of the input file, all its words together
MaxLetters == 6
\* number of lines of the dictionary the matcher is queried on (SpecMatch)
MaxMatchLines == 2
\* longest text the matcher is queried with (SpecMatch)
MaxTextLen == 4

\* ------------------------------------------------------ program constants
NBCHAR == 26
CHAR_a == 97
CR == 13
LF == 10
\* the null pointer: differs from every node name and from every string
NULL == <<-1>>

INDEX(x) == x - CHAR_a

\* the letters of the input: a and b
Chars == {CHAR_a, CHAR_a + 1}
WordsUpTo(n) == UNION {[1..k -> Chars] : k \in 0..n}
\* what getline() hands out: the word and its line terminator
LineOf(w) == w \o <<CR, LF>>

RECURSIVE Sum(_)
Sum(lens) == IF lens = <<>> THEN 0 ELSE Head(lens) + Sum(Tail(lens))

\* the file whose i-th line holds the next lens[i] of the letters
FileOf(lens, letters) ==
    [i \in 1..Len(lens) |->
        LineOf(SubSeq(letters, Sum(SubSeq(lens, 1, i - 1)) + 1,
                               Sum(SubSeq(lens, 1, i))))]

\* f is a file of up to m lines with up to n letters in all (a line may be
\* empty)
IsFileUpTo(f, m, n) ==
    \E k \in 0..m :
        \E lens \in [1..k -> 0..n] :
            /\ Sum(lens) <= n
            /\ \E letters \in [1..Sum(lens) -> Chars] : f = FileOf(lens, letters)

\* ------------------------------------------------------------------ trie
\* calloc(1, sizeof(trie)): word_end 0, no child
NewNode == [word_end |-> 0, children |-> [i \in 0..(NBCHAR-1) |-> NULL]]

root == <<>>

\* push_to_missing: the new element becomes the head
push_to_missing(list, missing) == <<missing>> \o list

\* variant of push_to_pending: the link to the rest of the list is lost
push_to_pending_lost(list, word, missing) ==
    <<[word |-> word, missing |-> missing]>>

\* push_to_pending: the new element becomes the head
push_to_pending(list, word, missing) ==
    <<[word |-> word, missing |-> missing]>> \o list

\* variant of strndup: strdup(word+offset), the rest of the line
strndup_rest(word, offset, n) == SubSeq(word, offset + 1, Len(word))

\* strndup(word+offset, n)
strndup(word, offset, n) == SubSeq(word, offset + 1, offset + n)

RECURSIVE insert_any(_, _, _, _, _, _)
\* variant of insert: the rest of the word is pushed at every node, whether
\* a known word ends there or not
insert_any(t, node, word, offset, len, missing) ==
    IF len - offset > 0
    THEN LET c  == INDEX(word[offset + 1])
             m1 == push_to_missing(missing, strndup(word, offset, len - offset))
             t1 == IF t[node].children[c] = NULL
                   THEN [n \in DOMAIN t \cup {Append(node, c)} |->
                           IF n = node THEN [t[node] EXCEPT !.children[c] = Append(node, c)]
                           ELSE IF n \in DOMAIN t THEN t[n]
                           ELSE NewNode]
                   ELSE t
         IN  insert_any(t1, t1[node].children[c], word, offset + 1, len, m1)
    ELSE [trie |-> [t EXCEPT ![node].word_end = 1], missing |-> missing]

RECURSIVE insert(_, _, _, _, _, _)
\* insert(node, word, offset, len, missing) on the heap t of trie nodes;
\* yields the heap and the list of missing parts
insert(t, node, word, offset, len, missing) ==
    IF len - offset > 0
    THEN LET c  == INDEX(word[offset + 1])
             m1 == IF t[node].word_end # 0
                   THEN push_to_missing(missing, strndup(word, offset, len - offset))
                   ELSE missing
             t1 == IF t[node].children[c] = NULL
                   THEN [n \in DOMAIN t \cup {Append(node, c)} |->
                           IF n = node THEN [t[node] EXCEPT !.children[c] = Append(node, c)]
                           ELSE IF n \in DOMAIN t THEN t[n]
                           ELSE NewNode]
                   ELSE t
         IN  insert(t1, t1[node].children[c], word, offset + 1, len, m1)
    ELSE [trie |-> [t EXCEPT ![node].word_end = 1], missing |-> missing]

RECURSIVE is_in_trie_norestart(_, _, _, _, _)
\* variant of is_in_trie: no restart at the root on a word boundary
is_in_trie_norestart(t, node, word, len, active) ==
    IF node = NULL THEN [ret |-> 0, looped |-> FALSE]
    ELSE IF len = 0 THEN [ret |-> t[node].word_end, looped |-> FALSE]
    ELSE is_in_trie_norestart(t, t[node].children[INDEX(Head(word))],
                              Tail(word), len - 1, active)

RECURSIVE is_in_trie_rec(_, _, _, _, _)
\* is_in_trie(node, word, len) on the heap t. active holds the (node, len)
\* of the calls in progress: a call that finds its own (node, len) there
\* would recurse without end, and is reported as looped instead.
is_in_trie_rec(t, node, word, len, active) ==
    IF node = NULL THEN [ret |-> 0, looped |-> FALSE]
    ELSE IF <<node, len>> \in active THEN [ret |-> 0, looped |-> TRUE]
    ELSE IF len = 0 THEN [ret |-> t[node].word_end, looped |-> FALSE]
    ELSE LET act  == active \cup {<<node, len>>}
             down == is_in_trie_rec(t, t[node].children[INDEX(Head(word))],
                                    Tail(word), len - 1, act)
         IN  IF down.looped \/ down.ret # 0
             THEN [ret |-> 1, looped |-> down.looped]
             ELSE IF t[node].word_end # 0
                  THEN LET again == is_in_trie_rec(t, root, word, len, act)
                       IN  [ret |-> IF again.ret # 0 THEN 1 ELSE 0,
                            looped |-> again.looped]
                  ELSE [ret |-> 0, looped |-> FALSE]

is_in_trie(t, node, word, len) == is_in_trie_rec(t, node, word, len, {}).ret

\* free_trie(root): no node is left
free_trie(t) == [n \in {} |-> NewNode]

\* ------------------------------------------------------------------ main
VARIABLES file, fpos, trie, pending, longest, longest_len, oldlongest,
          oldlongest_len, total, matched, pc, output,
          \* history: the pending list when the file was read, and the
          \* (word, missing part) of every total++
          records, counted,
          \* the matcher queried on its own (SpecMatch)
          q_text, q_ret, q_looped

vars == <<file, fpos, trie, pending, longest, longest_len, oldlongest,
          oldlongest_len, total, matched, pc, output, records, counted,
          q_text, q_ret, q_looped>>

\* variant of getline: the reading stops at the first empty line
getline_stop(f, p) ==
    IF p < Len(f) /\ Len(f[p + 1]) > 2 THEN Len(f[p + 1]) ELSE -1

\* getline(): the length of the next line, -1 at the end of the file
getline(f, p) == IF p < Len(f) THEN Len(f[p + 1]) ELSE -1

\* variant of empty_line: a line that holds "\r\n" only is not skipped
empty_line_lt(read) == read < 2

\* "if empty line (ie. \r\n), skip it"
empty_line(read) == read <= 2

\* the ranking variables of main, as one record
Rank == [longest |-> longest, longest_len |-> longest_len,
         oldlongest |-> oldlongest, oldlongest_len |-> oldlongest_len,
         total |-> total, matched |-> matched]

Rank0 == [longest |-> NULL, longest_len |-> 0, oldlongest |-> NULL,
          oldlongest_len |-> 0, total |-> 0, matched |-> 0]

\* variant of check_missing: >= in place of > in the two comparisons
check_missing_ge(r, t, word, missing) ==
    IF r.matched = 0 /\ is_in_trie(t, root, missing, Len(missing)) = 1
    THEN LET len == Len(word)
             r1  == IF len >= r.longest_len
                    THEN [r EXCEPT !.oldlongest = r.longest,
                                   !.oldlongest_len = r.longest_len,
                                   !.longest = word,
                                   !.longest_len = len]
                    ELSE IF len >= r.oldlongest_len
                         THEN [r EXCEPT !.oldlongest = word,
                                        !.oldlongest_len = len]
                         ELSE r
         IN  [r1 EXCEPT !.total = r.total + 1, !.matched = 1]
    ELSE r

\* variant of check_missing: matched is not looked at
check_missing_again(r, t, word, missing) ==
    IF is_in_trie(t, root, missing, Len(missing)) = 1
    THEN LET len == Len(word)
             r1  == IF len > r.longest_len
                    THEN [r EXCEPT !.oldlongest = r.longest,
                                   !.oldlongest_len = r.longest_len,
                                   !.longest = word,
                                   !.longest_len = len]
                    ELSE IF len > r.oldlongest_len
                         THEN [r EXCEPT !.oldlongest = word,
                                        !.oldlongest_len = len]
                         ELSE r
         IN  [r1 EXCEPT !.total = r.total + 1, !.matched = 1]
    ELSE r

\* variant of check_missing: the 2nd longest is replaced only once there
\* is one
check_missing_nofill(r, t, word, missing) ==
    IF r.matched = 0 /\ is_in_trie(t, root, missing, Len(missing)) = 1
    THEN LET len == Len(word)
             r1  == IF len > r.longest_len
                    THEN [r EXCEPT !.oldlongest = r.longest,
                                   !.oldlongest_len = r.longest_len,
                                   !.longest = word,
                                   !.longest_len = len]
                    ELSE IF r.oldlongest # NULL /\ len > r.oldlongest_len
                         THEN [r EXCEPT !.oldlongest = word,
                                        !.oldlongest_len = len]
                         ELSE r
         IN  [r1 EXCEPT !.total = r.total + 1, !.matched = 1]
    ELSE r

\* one round of the inner loop of main on the head of pending->missing
check_missing(r, t, word, missing) ==
    IF r.matched = 0 /\ is_in_trie(t, root, missing, Len(missing)) = 1
    THEN LET len == Len(word)
             r1  == IF len > r.longest_len
                    THEN [r EXCEPT !.oldlongest = r.longest,
                                   !.oldlongest_len = r.longest_len,
                                   !.longest = word,
                                   !.longest_len = len]
                    ELSE IF len > r.oldlongest_len
                         THEN [r EXCEPT !.oldlongest = word,
                                        !.oldlongest_len = len]
                         ELSE r
         IN  [r1 EXCEPT !.total = r.total + 1, !.matched = 1]
    ELSE r

\* variant of next_pending_word: matched is not reset
next_pending_word_keep(r) == r

\* "int matched = 0": each pending word starts unmatched
next_pending_word(r) == [r EXCEPT !.matched = 0]

\* the body of the loop that reads the file, for a line that is not skipped
read_line(t, pend, line, read) ==
    LET r == insert(t, root, line, 0, read - 2, <<>>)
    IN  [trie |-> r.trie,
         pending |-> IF r.missing # <<>>
                     THEN push_to_pending(pend, line, r.missing)
                     ELSE pend]

InitFile(maxlines, maxletters) ==
    /\ IsFileUpTo(file, maxlines, maxletters)
    /\ fpos = 0
    /\ trie = [n \in {root} |-> NewNode]
    /\ pending = <<>>
    /\ longest = NULL
    /\ longest_len = 0
    /\ oldlongest = NULL
    /\ oldlongest_len = 0
    /\ total = 0
    /\ matched = 0
    /\ pc = "read"
    /\ output = NULL
    /\ records = <<>>
    /\ counted = <<>>
    /\ q_text = <<>>
    /\ q_ret = -1
    /\ q_looped = FALSE

Init == InitFile(MaxLines, MaxLetters)

\* one round of the loop that reads the file
ReadLine ==
    /\ pc = "read"
    /\ getline(file, fpos) # -1
    /\ LET line == file[fpos + 1]
           read == getline(file, fpos)
       IN  IF empty_line(read)
           THEN UNCHANGED <<trie, pending>>
           ELSE LET r == read_line(trie, pending, line, read)
                IN  /\ trie' = r.trie
                    /\ pending' = r.pending
    /\ fpos' = fpos + 1
    /\ UNCHANGED <<file, longest, longest_len, oldlongest, oldlongest_len,
                   total, matched, pc, output, records, counted, q_text, q_ret, q_looped>>

\* getline() returns -1: the loop over the pending list starts
EndOfFile ==
    /\ pc = "read"
    /\ getline(file, fpos) = -1
    /\ pc' = "check"
    /\ longest' = NULL
    /\ longest_len' = 0
    /\ oldlongest' = NULL
    /\ oldlongest_len' = 0
    /\ total' = 0
    /\ matched' = 0
    /\ records' = pending
    /\ UNCHANGED <<file, fpos, trie, pending, output, counted, q_text, q_ret,
                   q_looped>>

\* one round of the inner loop: the head of pending->missing is checked
\* and freed
CheckMissing ==
    /\ pc = "check"
    /\ pending # <<>>
    /\ Head(pending).missing # <<>>
    /\ LET p == Head(pending)
           r == check_missing(Rank, trie, p.word, Head(p.missing))
       IN  /\ longest' = r.longest
           /\ longest_len' = r.longest_len
           /\ oldlongest' = r.oldlongest
           /\ oldlongest_len' = r.oldlongest_len
           /\ total' = r.total
           /\ matched' = r.matched
           /\ counted' = IF r.total # total
                         THEN Append(counted, [word |-> p.word, missing |-> Head(p.missing)])
                         ELSE counted
           /\ pending' = <<[p EXCEPT !.missing = Tail(p.missing)]>> \o Tail(pending)
    /\ UNCHANGED <<file, fpos, trie, pc, output, records, q_text, q_ret, q_looped>>

\* the inner loop is over: get the next pending word
NextPending ==
    /\ pc = "check"
    /\ pending # <<>>
    /\ Head(pending).missing = <<>>
    /\ pending' = Tail(pending)
    /\ matched' = next_pending_word(Rank).matched
    /\ UNCHANGED <<file, fpos, trie, longest, longest_len, oldlongest,
                   oldlongest_len, total, pc, output, records, counted, q_text, q_ret, q_looped>>

\* the three printf of main
PrintResults ==
    /\ pc = "check"
    /\ pending = <<>>
    /\ output' = [longest |-> longest, second |-> oldlongest, total |-> total]
    /\ pc' = "cleanup"
    /\ UNCHANGED <<file, fpos, trie, pending, longest, longest_len, oldlongest,
                   oldlongest_len, total, matched, records, counted, q_text, q_ret, q_looped>>

Cleanup ==
    /\ pc = "cleanup"
    /\ trie' = free_trie(trie)
    /\ pc' = "done"
    /\ UNCHANGED <<file, fpos, pending, longest, longest_len, oldlongest,
                   oldlongest_len, total, matched, output, records, counted, q_text, q_ret, q_looped>>

Next == ReadLine \/ EndOfFile \/ CheckMissing \/ NextPending \/ PrintResults \/ Cleanup

Spec == Init /\ [][Next]_vars

\* ------------------------------------------- the matcher queried on its own
\* is_in_trie(root, text, strlen(text)) for any text, once the file is read
\* (one query in a run)
Query ==
    /\ pc = "check"
    /\ q_ret = -1
    /\ \E text \in WordsUpTo(MaxTextLen) :
         LET r == is_in_trie_rec(trie, root, text, Len(text), {})
         IN  /\ q_text' = text
             /\ q_ret' = r.ret
             /\ q_looped' = r.looped
    /\ UNCHANGED <<file, fpos, trie, pending, longest, longest_len, oldlongest,
                   oldlongest_len, total, matched, pc, output, records, counted>>

InitMatch == InitFile(MaxMatchLines, MaxLetters)

NextMatch == ReadLine \/ EndOfFile \/ Query

SpecMatch == InitMatch /\ [][NextMatch]_vars

\* ------------------------------------------------- main, as a function
RECURSIVE read_all(_, _, _, _)
\* the loop that reads the file f from line p on
read_all(f, p, t, pend) ==
    IF getline(f, p) = -1 THEN [trie |-> t, pending |-> pend]
    ELSE IF empty_line(getline(f, p)) THEN read_all(f, p + 1, t, pend)
    ELSE LET r == read_line(t, pend, f[p + 1], getline(f, p))
         IN  read_all(f, p + 1, r.trie, r.pending)

RECURSIVE check_all(_, _, _, _)
\* the loop over the pending list; conf collects the words of every total++
check_all(r, t, pend, conf) ==
    IF pend = <<>> THEN [rank |-> r, confirmed |-> conf]
    ELSE LET p == Head(pend)
         IN  IF p.missing # <<>>
             THEN LET r1 == check_missing(r, t, p.word, Head(p.missing))
                  IN  check_all(r1, t,
                                <<[p EXCEPT !.missing = Tail(p.missing)]>> \o Tail(pend),
                                IF r1.total # r.total THEN conf \cup {p.word} ELSE conf)
             ELSE check_all(next_pending_word(r), t, Tail(pend), conf)

\* what main prints for the file f, and the words it counted
Run(f) ==
    LET ra == read_all(f, 0, [n \in {root} |-> NewNode], <<>>)
        ca == check_all(Rank0, ra.trie, ra.pending, {})
    IN  [longest |-> ca.rank.longest, second |-> ca.rank.oldlongest,
         total |-> ca.rank.total, confirmed |-> ca.confirmed]

\* ---------------------------------------------- vocabulary of the claims
\* the word of a line: the line without its "\r\n"
Word(line) == SubSeq(line, 1, Len(line) - 2)

\* the words of the first n lines of f (an empty line holds no word)
DictUpTo(f, n) == {Word(f[i]) : i \in 1..n} \ {<<>>}
Dict == DictUpTo(file, Len(file))

\* the words that end at a node of the trie t
TrieWords(t) ==
    {[i \in 1..Len(n) |-> n[i] + CHAR_a] : n \in {m \in DOMAIN t : t[m].word_end # 0}}

RECURSIVE Segmentable(_, _)
\* text is the concatenation of one or more words of D
Segmentable(D, text) ==
    \E k \in 1..Len(text) :
        /\ SubSeq(text, 1, k) \in D
        /\ \/ k = Len(text)
           \/ Segmentable(D, SubSeq(text, k + 1, Len(text)))

\* w is the concatenation of two or more words of D
Concatenated(D, w) ==
    \E k \in 1..(Len(w) - 1) :
        /\ SubSeq(w, 1, k) \in D
        /\ Segmentable(D, SubSeq(w, k + 1, Len(w)))

IsProperPrefix(u, w) == Len(u) < Len(w) /\ SubSeq(w, 1, Len(u)) = u

\* every word comes after the words that are its proper prefixes
PrefixFirst(f) ==
    \A i, j \in 1..Len(f) :
        (Word(f[j]) # <<>> /\ IsProperPrefix(Word(f[j]), Word(f[i]))) => j < i

\* the lines hold distinct, non-empty words
DistinctWords(f) ==
    /\ \A i \in 1..Len(f) : Word(f[i]) # <<>>
    /\ \A i, j \in 1..Len(f) : i # j => f[i] # f[j]

RECURSIVE Orderings(_)
\* the sequences that list each index of I once
Orderings(I) ==
    IF I = {} THEN {<<>>}
    ELSE UNION {{<<i>> \o o : o \in Orderings(I \ {i})} : i \in I}

\* the files that hold the lines of f in another order
Reorderings(f) ==
    {[k \in 1..Len(f) |-> f[o[k]]] : o \in Orderings(1..Len(f))}

StrLen(s) == IF s = NULL THEN 0 ELSE Len(s)

CountedWords == {counted[i].word : i \in 1..Len(counted)}

Matches(t, text) == is_in_trie(t, root, text, Len(text)) = 1

HasMatch(t, rec) == \E j \in 1..Len(rec.missing) : Matches(t, rec.missing[j])

FirstMatch(t, rec) ==
    rec.missing[CHOOSE j \in 1..Len(rec.missing) :
                    /\ Matches(t, rec.missing[j])
                    /\ \A k \in 1..(j - 1) : ~Matches(t, rec.missing[k])]

RECURSIVE ExpectedCounted(_, _)
\* for each record with a missing part that matches, in list order: the
\* word and the first missing part that matches
ExpectedCounted(t, recs) ==
    IF recs = <<>> THEN <<>>
    ELSE (IF HasMatch(t, Head(recs))
          THEN <<[word |-> Head(recs).word, missing |-> FirstMatch(t, Head(recs))]>>
          ELSE <<>>) \o ExpectedCounted(t, Tail(recs))

\* ------------------------------------------------------------------ claims

\* C1: every word that is counted is the concatenation of two or more
\* words of the file; being a word of the file is not enough.
C1_Soundness ==
    \A i \in 1..Len(counted) : Concatenated(Dict, Word(counted[i].word))

\* a word was counted, and another pending word, whose missing parts do
\* not match, was not
C1_Witness ==
    /\ pc = "cleanup"
    /\ total >= 1
    /\ \E i \in 1..Len(records) :
         /\ records[i].word \notin CountedWords
         /\ Word(records[i].word) \in Dict

\* C3: on the trie of the whole file, is_in_trie(root, text, len) is 1
\* exactly when text is the concatenation of one or more words of the file
\* (a word may be used more than once); the empty text does not match.
C3_Matcher ==
    q_ret # -1 => ((q_ret = 1) <=> Segmentable(Dict, q_text))

\* a text that is no word of the file matched, with a word used twice
C3_Witness ==
    /\ q_ret = 1
    /\ q_text \notin Dict
    /\ \E w \in Dict : q_text = w \o w

\* C8: inserting the word w of a line, with S the words inserted before,
\* yields one missing part w[k..n) for each k in 1..n-1 with w[0..k) in S
\* and nothing else; the word is pushed to the pending list exactly when
\* there is such a k.
C8_BreakCandidates ==
    [][(pc = "read" /\ fpos' = fpos + 1 /\ Len(file[fpos + 1]) > 2) =>
         LET line == file[fpos + 1]
             w    == Word(line)
             n    == Len(w)
             S    == DictUpTo(file, fpos)
             K    == {k \in 1..(n - 1) : SubSeq(w, 1, k) \in S}
         IN  IF K = {}
             THEN pending' = pending
             ELSE /\ Tail(pending') = pending
                  /\ Head(pending').word = line
                  /\ Len(Head(pending').missing) = Cardinality(K)
                  /\ {Head(pending').missing[j] : j \in 1..Cardinality(K)}
                       = {SubSeq(w, k + 1, n) : k \in K}]_vars

\* a word was pushed to the pending list with two missing parts
C8_Witness ==
    /\ pc = "read"
    /\ \E i \in 1..Len(pending) : Len(pending[i].missing) >= 2

\* C10: the root never ends a word, and no call of is_in_trie comes back
\* to a (node, rest of the text) it is already working on: the recursion
\* ends.
C10_Termination ==
    /\ pc \in {"read", "check"} => trie[root].word_end = 0
    /\ ~q_looped

\* a query restarted at the root, after a word that is a proper prefix of
\* the text, and ended without a match
C10_Witness ==
    /\ q_ret = 0
    /\ \E w \in Dict : IsProperPrefix(w, q_text)

\* what main printed, and the words it counted
Results ==
    [longest |-> output.longest, second |-> output.second,
     total |-> output.total, confirmed |-> CountedWords]

\* C2 as stated: whatever the order of the lines of a file of distinct
\* words, main counts the same words and prints the same longest word, 2nd
\* longest word and total.
C2_AnyOrder ==
    (pc = "cleanup" /\ DistinctWords(file)) =>
        \A g \in Reorderings(file) : Run(g) = Results

\* C2, amended: for two orders of a file of distinct words in which every
\* word comes after the words that are its proper prefixes, main counts the
\* same words, prints the same total, and a longest and a 2nd longest word
\* of the same lengths.
C2_PrefixFirstOrders ==
    (pc = "cleanup" /\ DistinctWords(file) /\ PrefixFirst(file)) =>
        \A g \in Reorderings(file) :
            PrefixFirst(g) =>
                LET r == Run(g)
                IN  /\ r.confirmed = CountedWords
                    /\ r.total = output.total
                    /\ StrLen(r.longest) = StrLen(output.longest)
                    /\ StrLen(r.second) = StrLen(output.second)

\* two prefix-first orders of the same words, two words counted in each,
\* and another longest word printed
C2_Witness ==
    /\ pc = "cleanup"
    /\ DistinctWords(file)
    /\ PrefixFirst(file)
    /\ output.total = 2
    /\ \E g \in Reorderings(file) :
         PrefixFirst(g) /\ Run(g).longest # output.longest

MaxLen(S) == CHOOSE m \in {Len(x) : x \in S} : \A x \in S : Len(x) <= m

\* longest is the first counted word of the greatest length
LongestIsFirstMax ==
    IF counted = <<>> THEN longest = NULL
    ELSE LET M == MaxLen(CountedWords)
             i == CHOOSE k \in 1..Len(counted) :
                     /\ Len(counted[k].word) = M
                     /\ \A h \in 1..(k - 1) : Len(counted[h].word) < M
         IN  longest = counted[i].word /\ longest_len = M

\* and, of the counted words of that length, the last one of the file
LongestIsLastInserted ==
    counted # <<>> =>
        LET P == {p \in 1..Len(file) :
                     file[p] \in CountedWords /\ Len(file[p]) = longest_len}
        IN  output.longest = file[CHOOSE p \in P : \A q \in P : q <= p]

C5_CountOnce ==
    pc = "cleanup" =>
        /\ total = Cardinality({i \in 1..Len(records) : HasMatch(trie, records[i])})
        /\ Len(counted) = total
        /\ counted = ExpectedCounted(trie, records)

\* a pending word with two missing parts that match was counted once
C5_Witness ==
    /\ pc = "cleanup"
    /\ total = 2
    /\ \E i \in 1..Len(records) :
         \E j, k \in 1..Len(records[i].missing) :
            /\ j < k
            /\ Matches(trie, records[i].missing[j])
            /\ Matches(trie, records[i].missing[k])

\* the first counted word is longer than every other counted word
FirstIsLongest ==
    /\ Len(counted) >= 2
    /\ \A i \in 2..Len(counted) : Len(counted[i].word) < Len(counted[1].word)

\* C6 as stated: when the first counted word is the longest and the others
\* are shorter, no 2nd longest word is printed.
C6_SecondStaysNone ==
    (pc = "cleanup" /\ FirstIsLongest) => output.second = NULL

\* C6, amended: no 2nd longest word is printed exactly when at most one
\* word was counted; when the first counted word is the longest and the
\* others are shorter, the 2nd longest is the longest of the others.
C6_SecondFilled ==
    pc = "cleanup" =>
        /\ (output.second = NULL) <=> (total <= 1)
        /\ FirstIsLongest =>
             /\ \E i \in 2..Len(counted) : output.second = counted[i].word
             /\ \A i \in 2..Len(counted) : Len(counted[i].word) <= Len(output.second)

\* the first counted word is the longest, and a 2nd longest is printed
C6_Witness ==
    /\ pc = "cleanup"
    /\ FirstIsLongest
    /\ output.second # NULL

\* C7: while the pending list is checked the whole file has been read, the
\* trie holds the words of the whole file and does not change.
C7_PhaseOrdering ==
    [][pc = "check" =>
         /\ fpos = Len(file)
         /\ fpos' = fpos
         /\ trie' = trie
         /\ TrieWords(trie) = Dict]_vars

\* a word was counted, on a trie of several words
C7_Witness ==
    /\ pc = "check"
    /\ counted # <<>>
    /\ Cardinality(TrieWords(trie)) >= 3

\* C9: when every word comes after the words that are its proper prefixes,
\* every line whose word is the concatenation of two or more words of the
\* file is counted.
C9_Completeness ==
    (pc = "cleanup" /\ PrefixFirst(file)) =>
        LET I == {i \in 1..Len(file) : Concatenated(Dict, Word(file[i]))}
        IN  /\ total = Cardinality(I)
            /\ \A i \in I : file[i] \in CountedWords

\* a prefix-first file with two concatenated words, one of them made of the
\* other
C9_Witness ==
    /\ pc = "cleanup"
    /\ PrefixFirst(file)
    /\ total = 2
    /\ \E i, j \in 1..Len(counted) :
         IsProperPrefix(Word(counted[i].word), Word(counted[j].word))

====
